---------------------------- MODULE Spec2Model ----------------------------
(***************************************************************************)
(* A model of roblox_swords.py: a script that clears the mesh objects of   *)
(* a scene and then builds ten low-poly swords, each from 2 to 5 mesh      *)
(* components that are joined, renamed, bevelled and shaded.               *)
(*                                                                         *)
(* Lengths are integers: literal coordinates and the bevel width are in    *)
(* hundredths of a unit, placement offsets are in whole units (spacing is  *)
(* 2.0 and the loop index is an integer, so every offset is integral).     *)
(* The vertices of the sampled blades (katana, khopesh, scimitar, dao) are *)
(* real-valued curve samples; a sampled vertex is held as its sample index *)
(* and its side (which of the two append calls of the loop body made it).  *)
(*                                                                         *)
(* The host (bpy) is modelled by what the calls of the script do to the    *)
(* scene: objects have unique names (a taken name gets a numeric suffix),  *)
(* select_by_type selects exactly the objects of that type, delete removes *)
(* the selected objects, join merges the selected meshes into the active   *)
(* object and removes the others.                                          *)
(*                                                                         *)
(* The docstring of main (line 242) ends in four quotes, which the Python  *)
(* parser rejects: as shipped the file does not load. The model takes the  *)
(* statements of main as they are written, the docstring closed.           *)
(***************************************************************************)
EXTENDS Integers, Sequences, FiniteSets, TLC

VARIABLES
    scene,      \* the objects of the scene: a set of records, names unique
    active,     \* bpy.context.view_layer.objects.active: a name, or NoObject
    mode,       \* the interaction mode: "OBJECT" or "EDIT"
    pc,         \* where the script is
    idx,        \* main: the loop variable i
    location,   \* main: the loop variable location, the style's argument
    objects,    \* a style function: the components made so far (names)
    call,       \* the arguments of the latest create_sword_component call
    printed,    \* the counts main printed in this run of the script
    runs        \* how many times the script has run to completion

vars == <<scene, active, mode, pc, idx, location, objects, call, printed, runs>>

\* How many times the script is run in succession.
MaxRuns == 2

\* create_sword_component on arbitrary arguments: the largest vertex count,
\* and the largest number of faces, of the arguments drawn.
MaxVerts == 3
MaxFaces == 2

NoObject == "<none>"
NoCall == [name |-> "", verts |-> <<>>, faces |-> <<>>, location |-> 0]

----------------------------------------------------------------------------
(* Vertices and faces *)

\* A literal vertex (x, y, z), in hundredths.
V(x, y, z) == [kind |-> "xyz", co |-> <<x, y, z>>]

\* The two vertices a sampling loop appends for sample i.
RingPair(i) == << [kind |-> "ring", co |-> <<i, 0, 0>>],
                  [kind |-> "ring", co |-> <<i, 1, 0>>] >>

\* blade_verts after `for i in range(n)`: two vertices per sample.
RECURSIVE RingVertsShort(_)
RingVertsShort(n) == IF n <= 1 THEN <<>> ELSE RingVertsShort(n - 1) \o RingPair(n - 2)

RECURSIVE RingVerts(_)
RingVerts(n) == IF n = 0 THEN <<>> ELSE RingVerts(n - 1) \o RingPair(n - 1)

\* The tip vertex appended after the loop.
Tip == [kind |-> "tip", co |-> <<0, 0, 0>>]

\* blade_faces after `for i in range(n)`: (i*2, i*2+1, i*2+3, i*2+2).
QuadStripShort(n) == [k \in 1..(n - 1) |->
    <<(k - 1) * 2, (k - 1) * 2 + 1, (k - 1) * 2 + 3, (k - 1) * 2 + 2>>]

QuadStripUnwound(n) == [k \in 1..n |->
    <<(k - 1) * 2, (k - 1) * 2 + 1, (k - 1) * 2 + 2, (k - 1) * 2 + 3>>]

QuadStrip(n) == [k \in 1..n |->
    <<(k - 1) * 2, (k - 1) * 2 + 1, (k - 1) * 2 + 3, (k - 1) * 2 + 2>>]

\* One create_sword_component call of a style: its name, verts and faces.
Comp(name, verts, faces) == [name |-> name, verts |-> verts, faces |-> faces]

----------------------------------------------------------------------------
(* The style catalog: for each style function, the components it creates, *)
(* in call order, and the name it passes to join_and_finalize.            *)

Quad0123 == << <<0, 1, 2, 3>> >>
Tri012 == << <<0, 1, 2>> >>

create_roman_gladius_rewound ==
    [name |-> "Roman_Gladius",
     comps |-> <<
       Comp("Blade",
            << V(8,0,0), V(-8,0,0), V(-8,80,0), V(8,80,0), V(0,100,0) >>,
            << <<0, 1, 2, 3>>, <<2, 3, 4>> >>),
       Comp("Guard", << V(-20,0,5), V(20,0,5), V(20,0,-5), V(-20,0,-5) >>, Quad0123),
       Comp("Hilt", << V(-6,-5,0), V(6,-5,0), V(6,-50,0), V(-6,-50,0) >>, Quad0123),
       Comp("Pommel", << V(-10,-50,0), V(10,-50,0), V(0,-65,0) >>, Tri012) >>]

create_roman_gladius_short ==
    [name |-> "Roman_Gladius",
     comps |-> <<
       Comp("Blade",
            << V(8,0,0), V(-8,0,0), V(-8,80,0), V(8,80,0), V(0,100,0) >>,
            << <<0, 1, 2, 3>>, <<2, 4, 3>> >>),
       Comp("Guard", << V(-20,0,5), V(20,0,5), V(20,0,-5), V(-20,0,-5) >>, Quad0123),
       Comp("Hilt", << V(-6,-5,0), V(6,-5,0), V(6,-50,0), V(-6,-50,0) >>, Quad0123) >>]

create_roman_gladius ==
    [name |-> "Roman_Gladius",
     comps |-> <<
       Comp("Blade",
            << V(8,0,0), V(-8,0,0), V(-8,80,0), V(8,80,0), V(0,100,0) >>,
            << <<0, 1, 2, 3>>, <<2, 4, 3>> >>),
       Comp("Guard", << V(-20,0,5), V(20,0,5), V(20,0,-5), V(-20,0,-5) >>, Quad0123),
       Comp("Hilt", << V(-6,-5,0), V(6,-5,0), V(6,-50,0), V(-6,-50,0) >>, Quad0123),
       Comp("Pommel", << V(-10,-50,0), V(10,-50,0), V(0,-65,0) >>, Tri012) >>]

create_viking_sword ==
    [name |-> "Viking_Sword",
     comps |-> <<
       Comp("Blade",
            << V(7,0,0), V(-7,0,0), V(-2,120,0), V(2,120,0), V(0,125,0) >>,
            << <<0, 1, 2, 3>>, <<2, 4, 3>> >>),
       Comp("Guard", << V(-25,5,0), V(25,5,0), V(20,-10,0), V(-20,-10,0) >>, Quad0123),
       Comp("Hilt", << V(-5,-10,0), V(5,-10,0), V(5,-60,0), V(-5,-60,0) >>, Quad0123),
       Comp("Pommel", << V(-15,-60,0), V(15,-60,0), V(10,-75,0), V(-10,-75,0) >>,
            Quad0123) >>]

\* create_katana: range(11) samples, range(10) quads, the triangle (20, 21, 22).
katana_samples == 11
katana_quads == 10

create_katana ==
    [name |-> "Japanese_Katana",
     comps |-> <<
       Comp("Blade", RingVerts(katana_samples) \o <<Tip>>,
            QuadStrip(katana_quads) \o << <<20, 21, 22>> >>),
       Comp("Guard", << V(-10,0,5), V(10,0,5), V(10,0,-5), V(-10,0,-5) >>, Quad0123),
       Comp("Hilt", << V(-6,-5,0), V(6,-5,0), V(6,-40,0), V(-6,-40,0) >>, Quad0123) >>]

\* create_khopesh: range(12) samples, range(11) quads, no tip.
khopesh_samples == 12
khopesh_quads == 11

create_khopesh ==
    [name |-> "Egyptian_Khopesh",
     comps |-> <<
       Comp("Blade", RingVerts(khopesh_samples), QuadStrip(khopesh_quads)),
       Comp("Hilt", << V(-6,20,0), V(6,20,0), V(6,-30,0), V(-6,-30,0) >>, Quad0123) >>]

\* create_scimitar: range(12) samples, range(11) quads, the triangle (22, 23, 24).
scimitar_samples == 12
scimitar_quads == 11

create_scimitar ==
    [name |-> "Persian_Scimitar",
     comps |-> <<
       Comp("Blade", RingVerts(scimitar_samples) \o <<Tip>>,
            QuadStrip(scimitar_quads) \o << <<22, 23, 24>> >>),
       Comp("Guard", << V(-15,5,5), V(15,-5,5), V(15,-5,-5), V(-15,5,-5) >>, Quad0123),
       Comp("Hilt", << V(-5,0,0), V(5,0,0), V(0,-40,0) >>, Tri012) >>]

create_claymore ==
    [name |-> "Scottish_Claymore",
     comps |-> <<
       Comp("Blade", << V(6,0,0), V(-6,0,0), V(-4,150,0), V(4,150,0) >>, Quad0123),
       Comp("Guard", << V(-40,10,0), V(40,10,0), V(30,-10,0), V(-30,-10,0) >>, Quad0123),
       Comp("Hilt", << V(-5,-10,0), V(5,-10,0), V(5,-70,0), V(-5,-70,0) >>, Quad0123),
       Comp("Pommel", << V(-10,-70,0), V(10,-70,0), V(0,-80,0) >>, Tri012) >>]

create_longsword ==
    [name |-> "European_Longsword",
     comps |-> <<
       Comp("Blade",
            << V(7,0,0), V(-7,0,0), V(-1,130,0), V(1,130,0), V(0,135,0) >>,
            << <<0, 1, 2, 3>>, <<2, 4, 3>> >>),
       Comp("Guard", << V(-30,5,0), V(30,5,0), V(30,-5,0), V(-30,-5,0) >>, Quad0123),
       Comp("Hilt", << V(-5,-5,0), V(5,-5,0), V(5,-60,0), V(-5,-60,0) >>, Quad0123),
       Comp("Pommel", << V(-10,-60,0), V(10,-60,0), V(0,-70,0) >>, Tri012) >>]

\* create_dao: range(10) samples, range(9) quads, the triangle (18, 19, 20).
dao_samples == 10
dao_quads == 9

create_dao ==
    [name |-> "Chinese_Dao",
     comps |-> <<
       Comp("Blade", RingVerts(dao_samples) \o <<Tip>>,
            QuadStrip(dao_quads) \o << <<18, 19, 20>> >>),
       Comp("Guard", << V(-8,-2,5), V(8,-2,5), V(8,-2,-5), V(-8,-2,-5) >>, Quad0123),
       Comp("Hilt", << V(-6,-2,0), V(6,-2,0), V(4,-30,0), V(-4,-30,0) >>, Quad0123) >>]

create_khanda ==
    [name |-> "Indian_Khanda",
     comps |-> <<
       Comp("Blade", << V(10,0,0), V(-10,0,0), V(-10,110,0), V(10,110,0) >>, Quad0123),
       Comp("Guard", << V(-20,0,0), V(20,0,0), V(20,-10,0), V(-20,-10,0) >>, Quad0123),
       Comp("Hilt", << V(-6,-10,0), V(6,-10,0), V(6,-50,0), V(-6,-50,0) >>, Quad0123),
       Comp("Pommel", << V(-10,-50,0), V(10,-50,0), V(10,-60,0), V(-10,-60,0) >>,
            Quad0123),
       Comp("Pommel_Spike", << V(2,-60,0), V(-2,-60,0), V(0,-80,0) >>, Tri012) >>]

create_zweihander ==
    [name |-> "German_Zweihander",
     comps |-> <<
       Comp("Blade", << V(7,0,0), V(-7,0,0), V(-5,170,0), V(5,170,0) >>, Quad0123),
       Comp("Parry_Hooks", << V(-20,40,0), V(20,40,0), V(15,30,0), V(-15,30,0) >>,
            Quad0123),
       Comp("Guard", << V(-40,5,0), V(40,5,0), V(40,-5,0), V(-40,-5,0) >>, Quad0123),
       Comp("Hilt", << V(-5,-5,0), V(5,-5,0), V(5,-80,0), V(-5,-80,0) >>, Quad0123),
       Comp("Pommel", << V(-10,-80,0), V(10,-80,0), V(0,-90,0) >>, Tri012) >>]

\* main: the list sword_functions, in order.
sword_functions ==
    << create_roman_gladius, create_viking_sword, create_katana, create_khopesh,
       create_scimitar, create_claymore, create_longsword, create_dao,
       create_khanda, create_zweihander >>

\* main: spacing = 2.0.
spacing == 2

\* join_and_finalize: the default of bevel_width, 0.01, in hundredths.
bevel_width_default == 1

----------------------------------------------------------------------------
(* The host's scene *)

Names(sc) == {e.name : e \in sc}
Obj(sc, n) == CHOOSE e \in sc : e.name = n
Meshes(sc) == {e \in sc : e.type = "MESH"}

\* bpy.data.objects.new(name, ...) and obj.name = name: a name that is taken
\* gets the first free numeric suffix.
Digits == <<"1", "2", "3", "4", "5", "6", "7", "8", "9">>
UniqueName(name, used) ==
    IF name \notin used THEN name
    ELSE LET free == {k \in DOMAIN Digits : (name \o ".00" \o Digits[k]) \notin used}
             k == CHOOSE m \in free : \A o \in free : m <= o
         IN  name \o ".00" \o Digits[k]

Deselected(sc) == {[e EXCEPT !.selected = FALSE] : e \in sc}

\* clear_scene, after the mode switch: deselect all, select the mesh objects,
\* delete the selected objects.
clear_scene_no_delete(sc) ==
    {[e EXCEPT !.selected = (e.type = "MESH")] : e \in Deselected(sc)}

clear_scene(sc) ==
    LET selectedByType == {[e EXCEPT !.selected = (e.type = "MESH")] : e \in Deselected(sc)}
    IN  {e \in selectedByType : ~e.selected}

\* Whether bm.verts[i] succeeds for every index i of face f, with n vertices.
FaceInRange(f, n) == \A k \in DOMAIN f : f[k] \in 0..(n - 1)

\* create_sword_component(name, verts, faces, location): the object is made,
\* placed and linked first; the mesh gets its geometry only with bm.to_mesh,
\* after every face was made. bm.verts[i] raises on an index out of range, and
\* nothing catches it: the linked object stays, with an empty mesh.
create_sword_component_unplaced(sc, name, verts, faces, loc) ==
    LET uname == UniqueName(name, Names(sc))
        ok == \A k \in DOMAIN faces : FaceInRange(faces[k], Len(verts))
        obj == [name |-> uname, type |-> "MESH", x |-> 0,
                verts |-> IF ok THEN verts ELSE <<>>,
                faces |-> IF ok THEN faces ELSE <<>>,
                selected |-> FALSE, modifiers |-> <<>>, smooth_angle |-> 0]
    IN  [scene |-> sc \cup {obj}, obj |-> uname, raised |-> ~ok]

create_sword_component(sc, name, verts, faces, loc) ==
    LET uname == UniqueName(name, Names(sc))
        ok == \A k \in DOMAIN faces : FaceInRange(faces[k], Len(verts))
        obj == [name |-> uname, type |-> "MESH", x |-> loc,
                verts |-> IF ok THEN verts ELSE <<>>,
                faces |-> IF ok THEN faces ELSE <<>>,
                selected |-> FALSE, modifiers |-> <<>>, smooth_angle |-> 0]
    IN  [scene |-> sc \cup {obj}, obj |-> uname, raised |-> ~ok]

\* bpy.ops.object.join on the objects objs[1..k] of sc: the geometry of all of
\* them in one mesh, each object's face indices shifted by the number of
\* vertices before it.
Shifted(faces, by) == [k \in DOMAIN faces |-> [m \in DOMAIN faces[k] |-> faces[k][m] + by]]

RECURSIVE JoinedMesh(_, _, _)
JoinedMesh(sc, objs, k) ==
    IF k = 0 THEN [verts |-> <<>>, faces |-> <<>>]
    ELSE LET before == JoinedMesh(sc, objs, k - 1)
             e == Obj(sc, objs[k])
         IN  [verts |-> before.verts \o e.verts,
              faces |-> before.faces \o Shifted(e.faces, Len(before.verts))]

\* join_and_finalize(objects, name, bevel_width): select the objects, make the
\* first the active one, join, rename, add the bevel, shade smooth by angle.
join_and_finalize_keep(sc, objs, name, bevel_width) ==
    LET sel == {objs[k] : k \in DOMAIN objs}
        selected == {[e EXCEPT !.selected = (e.name \in sel)] : e \in Deselected(sc)}
        first == Obj(selected, objs[1])
        mesh == JoinedMesh(selected, objs, Len(objs))
        rest == selected \ {first}
        sword == [first EXCEPT
                    !.name = UniqueName(name, Names(rest)),
                    !.verts = mesh.verts,
                    !.faces = mesh.faces,
                    !.modifiers = Append(@, [name |-> "Bevel", type |-> "BEVEL",
                                             width |-> bevel_width, segments |-> 1]),
                    !.smooth_angle = 45]
    IN  [scene |-> rest \cup {sword}, active |-> sword.name]

join_and_finalize(sc, objs, name, bevel_width) ==
    LET sel == {objs[k] : k \in DOMAIN objs}
        selected == {[e EXCEPT !.selected = (e.name \in sel)] : e \in Deselected(sc)}
        first == Obj(selected, objs[1])
        mesh == JoinedMesh(selected, objs, Len(objs))
        rest == {e \in selected : ~e.selected}
        sword == [first EXCEPT
                    !.name = UniqueName(name, Names(rest)),
                    !.verts = mesh.verts,
                    !.faces = mesh.faces,
                    !.modifiers = Append(@, [name |-> "Bevel", type |-> "BEVEL",
                                             width |-> bevel_width, segments |-> 1]),
                    !.smooth_angle = 45]
    IN  [scene |-> rest \cup {sword}, active |-> sword.name]

\* main: location = i * spacing.
LocationNoSpacing(i) == i

Location(i) == i * spacing

----------------------------------------------------------------------------
(* The script, run in a scene that holds anything *)

\* What the scene may hold before the script runs: the host's own camera, a
\* mesh of the user's, and what an earlier run of the script left.
EarlierObject(name, type, x) ==
    [name |-> name, type |-> type, x |-> x,
     verts |-> IF type = "MESH" THEN << V(0,0,0), V(1,0,0), V(1,1,0), V(0,1,0) >> ELSE <<>>,
     faces |-> IF type = "MESH" THEN Quad0123 ELSE <<>>,
     selected |-> FALSE, modifiers |-> <<>>, smooth_angle |-> 0]

EarlierObjects ==
    { EarlierObject("Camera", "CAMERA", 7), EarlierObject("Cube", "MESH", 0),
      EarlierObject("Roman_Gladius", "MESH", 0), EarlierObject("Blade", "MESH", 4) }

Style == sword_functions[idx + 1]

Init ==
    /\ scene \in SUBSET EarlierObjects
    /\ active \in Names(scene) \cup {NoObject}
    /\ mode \in {"OBJECT", "EDIT"}
    /\ mode = "EDIT" => active # NoObject /\ Obj(scene, active).type = "MESH"
    /\ pc = "main"
    /\ idx = 0
    /\ location = 0
    /\ objects = <<>>
    /\ call = NoCall
    /\ printed = <<>>
    /\ runs = 0

\* main: clear_scene(). mode_set.poll() holds when there is an active object.
MainClearScene ==
    /\ pc = "main"
    /\ mode' = IF active # NoObject THEN "OBJECT" ELSE mode
    /\ scene' = clear_scene(scene)
    /\ active' = IF active \in Names(scene') THEN active ELSE NoObject
    /\ idx' = 0
    /\ pc' = "loop"
    /\ UNCHANGED <<location, objects, call, printed, runs>>

\* main: one iteration of the loop begins, create_func(location) is called.
MainCallStyle ==
    /\ pc = "loop"
    /\ idx < Len(sword_functions)
    /\ location' = Location(idx)
    /\ objects' = <<>>
    /\ pc' = "style"
    /\ UNCHANGED <<scene, active, mode, idx, call, printed, runs>>

\* A style function: its next create_sword_component call.
StyleCreateComponent ==
    /\ pc = "style"
    /\ Len(objects) < Len(Style.comps)
    /\ LET c == Style.comps[Len(objects) + 1]
           r == create_sword_component(scene, c.name, c.verts, c.faces, location)
       IN  /\ call' = [name |-> c.name, verts |-> c.verts, faces |-> c.faces,
                       location |-> location]
           /\ scene' = r.scene
           /\ objects' = IF r.raised THEN objects ELSE Append(objects, r.obj)
           /\ pc' = IF r.raised THEN "raised" ELSE "style"
    /\ UNCHANGED <<active, mode, idx, location, printed, runs>>

\* A style function: its join_and_finalize call, and its return to the loop.
StyleJoinAndFinalize ==
    /\ pc = "style"
    /\ Len(objects) = Len(Style.comps)
    /\ LET r == join_and_finalize(scene, objects, Style.name, bevel_width_default)
       IN  /\ scene' = r.scene
           /\ active' = r.active
    /\ objects' = <<>>
    /\ idx' = idx + 1
    /\ pc' = "loop"
    /\ UNCHANGED <<mode, location, call, printed, runs>>

\* main: the loop is over, the count is printed.
MainPrint ==
    /\ pc = "loop"
    /\ idx = Len(sword_functions)
    /\ printed' = Append(printed, Len(sword_functions))
    /\ runs' = runs + 1
    /\ pc' = "done"
    /\ UNCHANGED <<scene, active, mode, idx, location, objects, call>>

\* The script is run again in the scene the last run left.
RunScript ==
    /\ pc = "done"
    /\ runs < MaxRuns
    /\ pc' = "main"
    /\ printed' = <<>>
    /\ call' = NoCall
    /\ UNCHANGED <<scene, active, mode, idx, location, objects, runs>>

Next ==
    \/ MainClearScene
    \/ MainCallStyle
    \/ StyleCreateComponent
    \/ StyleJoinAndFinalize
    \/ MainPrint
    \/ RunScript

Spec == Init /\ [][Next]_vars

----------------------------------------------------------------------------
(* create_sword_component on arbitrary arguments *)

Indices == 0..MaxVerts
Triangles == {<<a, b, c>> : a \in Indices, b \in Indices, c \in Indices}
DistinctTriangles == {f \in Triangles : f[1] # f[2] /\ f[2] # f[3] /\ f[1] # f[3]}
FaceLists == UNION {[1..n -> DistinctTriangles] : n \in 0..MaxFaces}
VertLists == {[k \in 1..n |-> V(k, 0, 0)] : n \in 1..MaxVerts}

ComponentInit ==
    /\ scene = {}
    /\ active = NoObject
    /\ mode = "OBJECT"
    /\ pc = "call"
    /\ idx = 0
    /\ location = 0
    /\ objects = <<>>
    /\ call \in [name : {"Part"}, verts : VertLists, faces : FaceLists, location : {0, spacing}]
    /\ printed = <<>>
    /\ runs = 0

ComponentCall ==
    /\ pc = "call"
    /\ LET r == create_sword_component(scene, call.name, call.verts, call.faces,
                                       call.location)
       IN  /\ scene' = r.scene
           /\ objects' = IF r.raised THEN objects ELSE Append(objects, r.obj)
           /\ pc' = IF r.raised THEN "raised" ELSE "returned"
    /\ UNCHANGED <<active, mode, idx, location, call, printed, runs>>

ComponentNext == ComponentCall

ComponentSpec == ComponentInit /\ [][ComponentNext]_vars

----------------------------------------------------------------------------
(* Properties *)

\* The style function is about to call join_and_finalize.
ReadyToJoin == pc = "style" /\ Len(objects) = Len(Style.comps)

\* The latest create_sword_component call made the blade of the current style.
BladeJustMade == pc = "style" /\ Len(objects) = 1 /\ call.name = "Blade"

\* The sampled blades: the loop index of the style, and the number of samples
\* its loop takes (katana 11, khopesh 12, scimitar 12, dao 10).
SampledStyles == {2, 3, 4, 7}
Samples(i) == CASE i = 2 -> 11 [] i = 3 -> 12 [] i = 4 -> 12 [] i = 7 -> 10

IndicesInRange(verts, faces) ==
    \A k \in DOMAIN faces : \A m \in DOMAIN faces[k] :
        0 <= faces[k][m] /\ faces[k][m] < Len(verts)

\* C1: every index of every face of every component a style creates lies in
\* [0, len(vertices)) of that component's vertex sequence; the same holds of
\* every mesh of the scene, a joined sword included.
C1_FaceIndicesInRange ==
    /\ IndicesInRange(call.verts, call.faces)
    /\ \A e \in Meshes(scene) : IndicesInRange(e.verts, e.faces)

\* The last sampled blade, the dao's, was made with its 10 faces.
C1_Witness ==
    /\ BladeJustMade /\ idx = 7
    /\ Len(call.faces) = 10 /\ Len(call.verts) = 21
    /\ \E e \in Meshes(scene) : e.name = "Blade" /\ e.faces = call.faces

\* Some face of the call's arguments has an index outside the vertex sequence.
BadFace == ~IndicesInRange(call.verts, call.faces)

\* C2: when a face references an index outside the vertex sequence,
\* create_sword_component reports an error and leaves no mesh entity and no
\* partial topology for the component in the scene.
C2_InvalidFaceLeavesNothing ==
    (pc # "call" /\ BadFace) => (pc = "raised" /\ scene = {})

Quads(faces) == {k \in DOMAIN faces : Len(faces[k]) = 4}
TriangleFaces(faces) == {k \in DOMAIN faces : Len(faces[k]) = 3}
RingVertices(verts) == {k \in DOMAIN verts : verts[k].kind = "ring"}
TipVertices(verts) == {k \in DOMAIN verts : verts[k].kind = "tip"}

\* C4: a sampled blade of N samples has 2N ring vertices plus at most one tip
\* vertex, and its faces are N-1 quadrilaterals plus at most one triangle; the
\* katana blade has 23 vertices and 10 quadrilaterals + 1 triangle = 11 faces.
C4_SampledBladeCounts ==
    (BladeJustMade /\ idx \in SampledStyles) =>
        LET n == Samples(idx)
            ring == Cardinality(RingVertices(call.verts))
            tips == Cardinality(TipVertices(call.verts))
            quads == Cardinality(Quads(call.faces))
            tris == Cardinality(TriangleFaces(call.faces))
        IN  /\ ring = 2 * n
            /\ tips <= 1
            /\ Len(call.verts) = ring + tips
            /\ quads = n - 1
            /\ tris <= 1
            /\ Len(call.faces) = quads + tris
            /\ idx = 2 => /\ Len(call.verts) = 23
                          /\ quads = 10 /\ tris = 1 /\ Len(call.faces) = 11

C4_Witness ==
    /\ BladeJustMade /\ idx = 2
    /\ Len(call.verts) = 23 /\ Len(call.faces) = 11

QuadOf(i) == <<2 * i, 2 * i + 1, 2 * i + 3, 2 * i + 2>>
QuadFaces(faces) == {faces[k] : k \in Quads(faces)}

\* C5, as claimed: a sampled blade of N samples has a quadrilateral for each i
\* in [0, N-2) and for no other i, the one for i being (2i, 2i+1, 2i+3, 2i+2).
C5_QuadsBelowNMinus2 ==
    (BladeJustMade /\ idx \in SampledStyles) =>
        QuadFaces(call.faces) = {QuadOf(i) : i \in 0..(Samples(idx) - 3)}

\* C5, amended: a sampled blade of N samples has a quadrilateral for each i in
\* [0, N-1) and for no other i, the one for i being (2i, 2i+1, 2i+3, 2i+2),
\* emitted in the order of i.
C5_QuadsBelowNMinus1 ==
    (BladeJustMade /\ idx \in SampledStyles) =>
        /\ QuadFaces(call.faces) = {QuadOf(i) : i \in 0..(Samples(idx) - 2)}
        /\ Cardinality(Quads(call.faces)) = Samples(idx) - 1
        /\ \A i \in 0..(Samples(idx) - 2) : call.faces[i + 1] = QuadOf(i)

\* The khopesh blade, 12 samples, was made: its last quadrilateral is the one
\* for i = 10.
C5_Witness ==
    /\ BladeJustMade /\ idx = 3
    /\ call.faces[11] = <<20, 21, 23, 22>>

\* C6: the Roman Gladius at offset 0 is made of exactly 4 components, named
\* Blade, Guard, Hilt and Pommel in that order, and after the join exactly one
\* entity remains for it, named "Roman_Gladius".
C6_GladiusComponents ==
    /\ (ReadyToJoin /\ idx = 0 /\ location = 0) =>
          /\ objects = <<"Blade", "Guard", "Hilt", "Pommel">>
          /\ Names(Meshes(scene)) = {"Blade", "Guard", "Hilt", "Pommel"}
    /\ idx >= 1 =>
          /\ Cardinality({e \in Meshes(scene) : e.x = 0}) = 1
          /\ \A e \in Meshes(scene) : e.x = 0 => e.name = "Roman_Gladius"

C6_Witness ==
    /\ pc = "loop" /\ idx = 1 /\ runs = 0
    /\ \E e \in Meshes(scene) : e.name = "Roman_Gladius" /\ Len(e.faces) = 5

\* The scene a run of the catalog leaves when it starts in an empty scene.
RECURSIVE CleanComponents(_, _, _)
CleanComponents(style, loc, k) ==
    IF k = 0 THEN [scene |-> {}, objects |-> <<>>]
    ELSE LET before == CleanComponents(style, loc, k - 1)
             c == style.comps[k]
             r == create_sword_component(before.scene, c.name, c.verts, c.faces, loc)
         IN  [scene |-> r.scene, objects |-> Append(before.objects, r.obj)]

CleanSword(i) ==
    LET style == sword_functions[i + 1]
        made == CleanComponents(style, Location(i), Len(style.comps))
    IN  Meshes(join_and_finalize(made.scene, made.objects, style.name,
                                 bevel_width_default).scene)

\* After the last sword's join only that sword is selected.
CleanRun ==
    UNION {{[e EXCEPT !.selected = (i = Len(sword_functions) - 1)] : e \in CleanSword(i)} :
              i \in 0..(Len(sword_functions) - 1)}

Unmerged(sc) == {e \in Meshes(sc) : e.modifiers = <<>>}

\* C8: swords are made one at a time in catalog order. While the script runs,
\* the unmerged components in the scene are those of the current sword only,
\* every earlier sword is one merged entity with none of its components left,
\* and no later sword has been started.
C8_OneSwordAtATime ==
    pc \in {"loop", "style", "done"} =>
        /\ \A e \in Unmerged(scene) : pc = "style" /\ e.x = 2 * idx
        /\ Names(Unmerged(scene)) = {objects[k] : k \in DOMAIN objects}
        /\ \A k \in 0..(idx - 1) :
              /\ Cardinality({e \in Meshes(scene) : e.x = 2 * k}) = 1
              /\ \A e \in Meshes(scene) : e.x = 2 * k => e.modifiers # <<>>
        /\ \A e \in Meshes(scene) : e.x <= 2 * idx

C8_Witness ==
    /\ pc = "style" /\ idx = 5 /\ Len(objects) = 2
    /\ Cardinality(Unmerged(scene)) = 2
    /\ Cardinality(Meshes(scene)) = 7

\* C9: every style passes between 2 and 5 components to join_and_finalize, and
\* every component of a sword is created at the offset the style received.
C9_ComponentsShareOffset ==
    /\ ReadyToJoin => (2 <= Len(objects) /\ Len(objects) <= 5)
    /\ pc = "style" =>
          /\ \A k \in DOMAIN objects : Obj(scene, objects[k]).x = location
          /\ objects # <<>> => call.location = location

C9_Witness ==
    /\ ReadyToJoin /\ idx = 9 /\ Len(objects) = 5
    /\ location = 18
    /\ \A k \in DOMAIN objects : Obj(scene, objects[k]).x = 18

\* The directed edges of a face: each index to the next, the last to the first.
Edges(f) == {<<f[k], f[(k % Len(f)) + 1]>> : k \in DOMAIN f}

ConsistentlyWound(faces) ==
    /\ \A k \in DOMAIN faces :
          /\ Len(faces[k]) \in {3, 4}
          /\ \A a \in DOMAIN faces[k] : \A b \in DOMAIN faces[k] :
                a # b => faces[k][a] # faces[k][b]
    /\ \A k \in DOMAIN faces : \A m \in DOMAIN faces :
          k # m => Edges(faces[k]) \cap Edges(faces[m]) = {}

\* C10: every face has 3 or 4 pairwise distinct indices, and two faces of one
\* component that share an edge traverse it in opposite directions: no two
\* faces have a directed edge in common.
C10_ConsistentWinding ==
    /\ ConsistentlyWound(call.faces)
    /\ \A e \in Meshes(scene) : ConsistentlyWound(e.faces)

\* The gladius blade: the tip triangle (2, 4, 3) against the quadrilateral.
C10_Witness ==
    /\ BladeJustMade /\ idx = 0
    /\ <<2, 3>> \in Edges(call.faces[1])
    /\ <<3, 2>> \in Edges(call.faces[2])

=============================================================================
